---------------------------- MODULE Spec2Model ----------------------------
(***************************************************************************)
(* PokemonCatcherApp: the catch-rate calculator and the catch-chain        *)
(* tracker, as app.py has them and as the older pokemon_catchrate.py has   *)
(* them: each program's callback, catch_pokemon and catchrate_calc.        *)
(*                                                                         *)
(* Numbers.  The code computes in binary floating point and rounds a rate  *)
(* to two decimals.  Here a real x is held in fixed point as the integer   *)
(* x * Scale, and a positive real that is only ever multiplied, divided or *)
(* raised to a power is held by its natural logarithm (ln x * Scale), so a *)
(* product is a sum and np.pow(x, p/q) is (ln x * p) \div q.  A rate is an *)
(* integer number of hundredths of a percent, which is what round(., 2)    *)
(* returns.  The resolution is 1/Scale; values agree with the floating     *)
(* point result to about +-0.05 percentage points.                          *)
(*                                                                         *)
(* Text.  A Python str is a sequence of one-character strings, so that     *)
(* str.split and the f-string are modelled by what they do.                *)
(***************************************************************************)
EXTENDS Integers, Sequences, FiniteSets, TLC

\* round(catch_rate, 2) of a percentage: hundredths of a percent.
Scale == 100 * 100

Min(a, b) == IF a < b THEN a ELSE b

RECURSIVE Pow2(_)
Pow2(k) == IF k = 0 THEN 1 ELSE 2 * Pow2(k - 1)

\* The k with 2^k <= n < 2^(k+1), n >= 1.
RECURSIVE Log2Floor(_)
Log2Floor(n) == IF n < 2 THEN 0 ELSE 1 + Log2Floor(n \div 2)

\* a / b rounded to the nearest integer, b > 0.
RDiv(a, b) == (a + b \div 2) \div b

\* The logarithm is summed at three times the resolution, where 1/3 is exact.
FineScale == 3 * Scale

\* 2 * atanh(y / FineScale) * FineScale for 0 <= y <= FineScale / 3, by its
\* power series in Horner form; y2 is y * y.
AtanhSeries(y, y2) ==
    RDiv(2 * y *
         (FineScale + RDiv(y2 *
           (FineScale \div 3 + RDiv(y2 *
             (FineScale \div 5 + RDiv(y2 *
               (FineScale \div 7 + RDiv(y2 * (FineScale \div 9), FineScale)),
               FineScale)),
             FineScale)),
           FineScale)),
         FineScale)

Atanh2(y) == AtanhSeries(y, RDiv(y * y, FineScale))

\* ln 2 * FineScale = 2 * atanh(1/3) * FineScale.
Ln2Fine == Atanh2(FineScale \div 3)

\* ln n * Scale for an integer n >= 1: n = 2^k * m with 1 <= m < 2 and
\* ln m = 2 * atanh((m - 1) / (m + 1)).  A large n is first shortened to
\* 17 bits (n1 and p1 are n and 2^k shortened), which stays within the
\* resolution.
Shorten(k) == IF k > 16 THEN Pow2(k - 16) ELSE 1

LnShort(k, n1, p1) ==
    RDiv(k * Ln2Fine + Atanh2(RDiv((n1 - p1) * FineScale, n1 + p1)), 3)

LnNorm(n, k) == LnShort(k, n \div Shorten(k), Pow2(k) \div Shorten(k))

LnInt(n) == LnNorm(n, Log2Floor(n))

\* ln 2 * Scale.
Ln2 == LnInt(2)

\* ln (num / den) * Scale.
LnRat(num, den) == LnInt(num) - LnInt(den)

\* exp(r / Scale) * Scale for 0 <= r < ln 2, by its power series in Horner
\* form.
ExpSeries(r) ==
    Scale + RDiv(r *
      (Scale + RDiv(r *
        (Scale + RDiv(r *
          (Scale + RDiv(r *
            (Scale + RDiv(r *
              (Scale + RDiv(r, 6)), 5 * Scale)), 4 * Scale)), 3 * Scale)),
        2 * Scale)),
      Scale)

\* e * 2^k, rounded.
Times2(e, k) ==
    IF k >= 0 THEN e * Pow2(k)
    ELSE IF -k > 30 THEN 0
    ELSE RDiv(e, Pow2(-k))

\* exp(x / Scale) * Scale: x = k * ln 2 + r with 0 <= r < ln 2.
ExpFix(x) == Times2(ExpSeries(x - (x \div Ln2) * Ln2), x \div Ln2)

\* ln of a multiplier held in hundredths (150 is 1.5).
LnMult(m) == LnRat(m, 100)

(***************************************************************************)
(* catchrate_calc of app.py.  catch_rate, times_caught and combat_power    *)
(* are the integers of the database and of the cp field; ball, technique   *)
(* and berry are multipliers in hundredths.  10000 / ((100 - t) / 100 * cp *)
(* + 1) is 10^6 / ((100 - t) * cp + 100).                                  *)
(***************************************************************************)
EffectiveCaught(times_caught) == Min(100, times_caught)

\* ln of 10000 / ((100 - t) / 100 * combat_power + 1).
LnPower(t, combat_power) == LnRat(1000000, (100 - t) * combat_power + 100)

LnA(catch_rate, times_caught, combat_power, ball, techberry) ==
    LnRat(125, 100)
    + RDiv(LnInt(catch_rate) * 100, 185)
    + RDiv(LnPower(EffectiveCaught(times_caught), combat_power), 4)
    + RDiv(3 * LnMult(ball), 2)
    + RDiv(techberry, 2)

ClampRound(catch_rate) == Min(Scale, catch_rate)

\* b / 65535 * 100 for b = 65535 / (255 / a) ** (1 / 5.33), from ln a.
RateOfA(a) ==
    ExpFix(LnInt(65535) - RDiv((LnInt(255) - a) * 100, 533) - LnInt(65535))

catchrate_calc(catch_rate, times_caught, combat_power, ball, technique, berry) ==
    ClampRound(RateOfA(LnA(catch_rate, times_caught, combat_power, ball,
                           LnMult(technique) + LnMult(berry))))

\* (1 - b / 65536) * 100 for b = 65535 / a ** (5 / 16), from ln a.
RateOfALegacy(a) ==
    Scale - ExpFix(LnInt(65535) - RDiv(5 * a, 16) - LnInt(65536))

\* catchrate_calc of pokemon_catchrate.py: technique + berry, a ** (5/16),
\* (1 - b / 65536) * 100.
catchrate_calc_legacy(catch_rate, times_caught, combat_power, ball, technique, berry) ==
    ClampRound(RateOfALegacy(LnA(catch_rate, times_caught, combat_power, ball,
                                 LnMult(technique + berry))))

(***************************************************************************)
(* catchring_color: the colour of the ring for a rate in hundredths of a   *)
(* percent.                                                                *)
(***************************************************************************)
color_thresholds == [orange |-> 70 * 100, yellow |-> 75 * 100, green |-> 80 * 100]

catchring_color_closed(catch_rate) ==
    IF catch_rate <= color_thresholds.orange THEN "red"
    ELSE IF catch_rate <= color_thresholds.yellow THEN "orange"
    ELSE IF catch_rate <= color_thresholds.green THEN "gold"
    ELSE "green"

catchring_color(catch_rate) ==
    IF catch_rate < color_thresholds.orange THEN "red"
    ELSE IF color_thresholds.orange <= catch_rate
            /\ catch_rate < color_thresholds.yellow THEN "orange"
    ELSE IF color_thresholds.yellow <= catch_rate
            /\ catch_rate < color_thresholds.green THEN "gold"
    ELSE "green"

(***************************************************************************)
(* Text.                                                                   *)
(***************************************************************************)
Digit(d) == <<"0", "1", "2", "3", "4", "5", "6", "7", "8", "9">>[d + 1]

\* str(n) for n >= 0.
RECURSIVE Str(_)
Str(n) == IF n < 10 THEN <<Digit(n)>> ELSE Str(n \div 10) \o <<Digit(n % 10)>>

\* s.split("-"): the parts between the separators, at least one part.
RECURSIVE split(_)
split(s) ==
    IF \A i \in 1..Len(s) : s[i] # "-" THEN <<s>>
    ELSE LET i == CHOOSE j \in 1..Len(s) :
                      s[j] = "-" /\ \A h \in 1..(j - 1) : s[h] # "-"
         IN  <<SubSeq(s, 1, i - 1)>> \o split(SubSeq(s, i + 1, Len(s)))

FirstPart(s) == split(s)[1]

\* pokemonname.split("-")[-1]
LastPart(s) == split(s)[Len(split(s))]

NoChain == <<"N", "o", " ", "c", "h", "a", "i", "n">>

ChainOf == <<"C", "h", "a", "i", "n", " ", "o", "f", " ">>

\* f'Chain of {chainvalue} {pokemonname.split("-")[-1]}!'
ChainText(chainvalue, pokemonname) ==
    ChainOf \o Str(chainvalue) \o <<" ">> \o LastPart(pokemonname) \o <<"!">>

\* html.Td(children, style=...): bold SteelBlue for a chain, normal otherwise.
Td(children, bold) == [children |-> children, bold |-> bold]

(***************************************************************************)
(* The database, resources/pokemonletsgo_db.json, as loaded at start.  The *)
(* file is data outside the source tree: the tables below are a small      *)
(* database of the same shape.  Multipliers are in hundredths.             *)
(***************************************************************************)
RegionFormA == <<"r", "e", "g", "i", "o", "n", "-", "f", "o", "r", "m", "A">>
RegionFormB == <<"r", "e", "g", "i", "o", "n", "-", "f", "o", "r", "m", "B">>
Mew         == <<"m", "e", "w">>
UnknownId   == <<"u", "n", "k", "n", "o", "w", "n", "-", "i", "d">>

SpeciesIds == {RegionFormA, RegionFormB, Mew}

InitialPokemon ==
    [p \in SpeciesIds |->
        [catch_rate   |-> IF p = RegionFormA THEN 45
                          ELSE IF p = RegionFormB THEN 190 ELSE 3,
         times_caught |-> IF p = RegionFormA THEN 99 ELSE 0,
         shiny_caught |-> "No"]]

ballrate_dict == [b \in {"pokeball", "ultraball"} |->
                     IF b = "pokeball" THEN 100 ELSE 200]

berry_dict == [b \in {"none"} |-> 100]

\* The technique table in the order of its keys.
TechniqueNames == <<"None", "Nice", "Great", "Excellent">>

technique_dict == [t \in {"None", "Nice", "Great", "Excellent"} |->
                      CASE t = "None" -> 100 [] t = "Nice" -> 115
                        [] t = "Great" -> 150 [] OTHER -> 185]

\* What the dropdowns and the cp field can send.  A dropdown that is cleared
\* sends None, which is in no table: UnknownId and "unknown" stand for it.
PokemonChoices == SpeciesIds \cup {UnknownId}
BallChoices    == DOMAIN ballrate_dict \cup {"unknown"}
BerryChoices   == DOMAIN berry_dict \cup {"unknown"}
CombatPowers   == {100, 1000}

\* The model stops after this many "+" clicks that were counted.
MaxCaptures == 4

\* The repository holds the application twice: app.py, and the older
\* pokemon_catchrate.py, whose callback keeps the chain in chain_dict and
\* writes no chain to the file.  `program` is the one that runs.
VARIABLES
    program,            \* "app" or "pokemon_catchrate"
    pokemon_dict,       \* pokemon_db["pokemon"]
    pokemonchain_dict,  \* app: pokemon_db["letsgochain"]
    chaintext,          \* app: the global html.Td shown as the chain
    INIT_STATE,         \* app: True until the first callback
    chain_dict,         \* pokemon_catchrate: the chain
    database_file,      \* what json.dump last wrote to the database file
    page,               \* "loading" until the browser has fired the first callback
    chain_event,        \* history: the last event that acted on the chain
    inputs,             \* the values of the input components in the browser
    outputs,            \* what the last callback returned
    raised,             \* the exception the last callback ended with
    stdout,             \* what catch_pokemon printed in the last callback
    call,               \* SpecFn: the arguments of a function applied alone
    ret                 \* SpecFn: its result

progvars == <<program, pokemon_dict, pokemonchain_dict, chaintext, INIT_STATE,
              chain_dict, database_file, page, chain_event, inputs, outputs,
              raised, stdout>>
fnvars == <<call, ret>>
vars == <<progvars, fnvars>>

NoException == [type |-> "none", arg |-> <<>>]
KeyError(key) == [type |-> "KeyError", arg |-> key]
\* 'NoneType' object is not subscriptable
TypeError == [type |-> "TypeError", arg |-> <<>>]

\* A global the running program does not have.
NotDefined == <<>>

pokemon_db == [pokemon |-> pokemon_dict, letsgochain |-> pokemonchain_dict]

\* catchrate_calc, tabulated once over the arguments this database and these
\* inputs can reach (the values are those of catchrate_calc).
Range(f) == {f[v] : v \in DOMAIN f}

Tabulated ==
    {InitialPokemon[p].catch_rate : p \in SpeciesIds}
    \X (UNION {InitialPokemon[p].times_caught ..
                   InitialPokemon[p].times_caught + MaxCaptures + 1 : p \in SpeciesIds})
    \X CombatPowers \X Range(ballrate_dict) \X Range(technique_dict)
    \X Range(berry_dict)

\* (f @@ g makes TLC hold the table as explicit values.)
RateTable ==
    [a \in Tabulated |-> catchrate_calc(a[1], a[2], a[3], a[4], a[5], a[6])]
    @@ [a \in {} |-> 0]

Rate(catch_rate, times_caught, combat_power, ball, technique, berry) ==
    LET a == <<catch_rate, times_caught, combat_power, ball, technique, berry>>
    IN  IF a \in Tabulated THEN RateTable[a]
        ELSE catchrate_calc(catch_rate, times_caught, combat_power, ball,
                            technique, berry)

RateTableLegacy ==
    [a \in Tabulated |-> catchrate_calc_legacy(a[1], a[2], a[3], a[4], a[5], a[6])]
    @@ [a \in {} |-> 0]

RateLegacy(catch_rate, times_caught, combat_power, ball, technique, berry) ==
    LET a == <<catch_rate, times_caught, combat_power, ball, technique, berry>>
    IN  IF a \in Tabulated THEN RateTableLegacy[a]
        ELSE catchrate_calc_legacy(catch_rate, times_caught, combat_power, ball,
                                   technique, berry)

(***************************************************************************)
(* catch_pokemon: None with a printed message when an identifier is not in *)
(* its table, else one rate for each technique.                            *)
(***************************************************************************)
catch_pokemon(pd, pokemon, combat_power, ball, berry) ==
    IF pokemon \notin DOMAIN pd
      THEN [isNone |-> TRUE, printed |-> "Pokemon not found", rates |-> <<>>]
    ELSE IF ball \notin DOMAIN ballrate_dict
      THEN [isNone |-> TRUE, printed |-> "Ball not found", rates |-> <<>>]
    ELSE IF berry \notin DOMAIN berry_dict
      THEN [isNone |-> TRUE, printed |-> "Berry not found", rates |-> <<>>]
    ELSE [isNone |-> FALSE, printed |-> "",
          rates |-> [i \in 1..Len(TechniqueNames) |->
                        Rate(pd[pokemon].catch_rate,
                             pd[pokemon].times_caught,
                             combat_power,
                             ballrate_dict[ball],
                             technique_dict[TechniqueNames[i]],
                             berry_dict[berry])]]

\* The catch_pokemon of pokemon_catchrate.py: the same checks, its own formula.
catch_pokemon_legacy(pd, pokemon, combat_power, ball, berry) ==
    IF pokemon \notin DOMAIN pd
      THEN [isNone |-> TRUE, printed |-> "Pokemon not found", rates |-> <<>>]
    ELSE IF ball \notin DOMAIN ballrate_dict
      THEN [isNone |-> TRUE, printed |-> "Ball not found", rates |-> <<>>]
    ELSE IF berry \notin DOMAIN berry_dict
      THEN [isNone |-> TRUE, printed |-> "Berry not found", rates |-> <<>>]
    ELSE [isNone |-> FALSE, printed |-> "",
          rates |-> [i \in 1..Len(TechniqueNames) |->
                        RateLegacy(pd[pokemon].catch_rate,
                                   pd[pokemon].times_caught,
                                   combat_power,
                                   ballrate_dict[ball],
                                   technique_dict[TechniqueNames[i]],
                                   berry_dict[berry])]]

(***************************************************************************)
(* triggers_handler.                                                       *)
(***************************************************************************)
IncrementCapped(times_caught) == Min(100, times_caught + 1)

IncrementCaughtTwice(times_caught) == times_caught + 2

\* pokemon_dict[pokemonname]["times_caught"] += 1
IncrementCaught(times_caught) == times_caught + 1

ChainCaptureResume(chain, pokemonname) ==
    LET c1 == [chain EXCEPT !.pokemonname = pokemonname]
        c2 == [c1 EXCEPT !.chainvalue = @ + 1]
    IN  [c2 EXCEPT !.chaintext = ChainText(c2.chainvalue, pokemonname)]

ChainCaptureFirstPart(chain, pokemonname) ==
    LET c1 == IF chain.pokemonname # pokemonname
                THEN [chain EXCEPT !.pokemonname = pokemonname, !.chainvalue = 0]
                ELSE chain
        c2 == [c1 EXCEPT !.chainvalue = @ + 1]
    IN  [c2 EXCEPT !.chaintext =
            ChainOf \o Str(c2.chainvalue) \o <<" ">> \o FirstPart(pokemonname)
                \o <<"!">>]

\* The chain on "+": back to 0 for another pokemon, then one more.
ChainCapture(chain, pokemonname) ==
    LET c1 == IF chain.pokemonname # pokemonname
                THEN [chain EXCEPT !.pokemonname = pokemonname, !.chainvalue = 0]
                ELSE chain
        c2 == [c1 EXCEPT !.chainvalue = @ + 1]
    IN  [c2 EXCEPT !.chaintext = ChainText(c2.chainvalue, pokemonname)]

ChainResetKeepText(chain) == [chain EXCEPT !.chainvalue = 0]

ChainResetTextOnly(chain) == [chain EXCEPT !.chaintext = NoChain]

ChainResetForget(chain) ==
    [chain EXCEPT !.chainvalue = 0, !.chaintext = NoChain, !.pokemonname = <<>>]

\* The chain on "Reset".
ChainReset(chain) == [chain EXCEPT !.chainvalue = 0, !.chaintext = NoChain]

\* json.dump(pokemon_db, database)
Dump(g) == [g EXCEPT !.database_file =
               [pokemon |-> g.pokemon_dict, letsgochain |-> g.pokemonchain_dict]]

\* g holds the globals; the result is the globals after the call and the
\* exception it ended with.
triggers_handler(trigger, pokemonname, shinyradio, g) ==
    IF trigger = "add1_btn" THEN
        IF pokemonname \notin DOMAIN g.pokemon_dict
          THEN [g |-> g, raised |-> KeyError(pokemonname)]
          ELSE LET chain == ChainCapture(g.pokemonchain_dict, pokemonname)
               IN  [g |-> Dump([g EXCEPT
                        !.pokemon_dict[pokemonname].times_caught =
                            IncrementCaught(@),
                        !.pokemonchain_dict = chain,
                        !.chaintext = Td(chain.chaintext, TRUE)]),
                    raised |-> NoException]
    ELSE IF trigger = "resetchain_btn" THEN
        LET chain == ChainReset(g.pokemonchain_dict)
        IN  [g |-> Dump([g EXCEPT !.pokemonchain_dict = chain,
                                  !.chaintext = Td(chain.chaintext, FALSE)]),
             raised |-> NoException]
    ELSE IF trigger = "shinyradio" THEN
        IF pokemonname \notin DOMAIN g.pokemon_dict
          THEN [g |-> g, raised |-> KeyError(pokemonname)]
          ELSE [g |-> Dump([g EXCEPT
                        !.pokemon_dict[pokemonname].shiny_caught = shinyradio]),
                raised |-> NoException]
    ELSE [g |-> Dump(g), raised |-> NoException]

(***************************************************************************)
(* The triggers of pokemon_catchrate.py, at the head of its callback.      *)
(***************************************************************************)
chain_dict_init ==
    [chaintext_init |-> Td(NoChain, FALSE),
     chaintext      |-> Td(NoChain, FALSE),
     current_catch  |-> <<>>,
     last_catch     |-> <<>>,
     chainvalue     |-> 0]

\* The chain on "+".
ChainCaptureLegacy(chain, pokemonname) ==
    LET c1 == [chain EXCEPT !.current_catch = pokemonname]
        c2 == IF c1.last_catch # c1.current_catch
                THEN [c1 EXCEPT !.chainvalue = 0, !.last_catch = pokemonname]
                ELSE c1
        c3 == [c2 EXCEPT !.chainvalue = @ + 1]
    IN  [c3 EXCEPT !.chaintext =
            IF c3.chainvalue > 0
              THEN Td(ChainText(c3.chainvalue, pokemonname), TRUE)
              ELSE c3.chaintext_init]

\* The chain on "Reset".
ChainResetLegacy(chain) ==
    [chain EXCEPT !.chainvalue = 0, !.chaintext = chain.chaintext_init]

\* json.dump(pokemon_db, db_file): this pokemon_db holds no chain.
DumpLegacy(g) == [g EXCEPT !.database_file = [pokemon |-> g.pokemon_dict]]

triggers_legacy(trigger, pokemonname, shinyradio, g) ==
    IF trigger = "add1_btn" THEN
        IF pokemonname \notin DOMAIN g.pokemon_dict
          THEN [g |-> g, raised |-> KeyError(pokemonname)]
          ELSE [g |-> [DumpLegacy([g EXCEPT
                           !.pokemon_dict[pokemonname].times_caught =
                               IncrementCaught(@)])
                       EXCEPT !.chain_dict = ChainCaptureLegacy(@, pokemonname)],
                raised |-> NoException]
    ELSE IF trigger = "resetchain_btn" THEN
        [g |-> [g EXCEPT !.chain_dict = ChainResetLegacy(@)],
         raised |-> NoException]
    ELSE IF trigger = "shinyradio" THEN
        IF pokemonname \notin DOMAIN g.pokemon_dict
          THEN [g |-> g, raised |-> KeyError(pokemonname)]
          ELSE [g |-> DumpLegacy([g EXCEPT
                        !.pokemon_dict[pokemonname].shiny_caught = shinyradio]),
                raised |-> NoException]
    ELSE [g |-> g, raised |-> NoException]

(***************************************************************************)
(* update_catchrates, the one callback: `trigger` is ctx.triggered_id and  *)
(* `in` the values of the input components.  `outputs` is what the call    *)
(* returned, blank when it raised: nothing is then rendered.               *)
(***************************************************************************)
BlankOutputs ==
    [CR |-> <<>>, ring |-> <<>>, numbercaught |-> 0,
     chaintext |-> Td(<<>>, FALSE), shinyradio |-> "No"]

RatesBeforeTrigger(before, after) == before

\* The dictionary catch_pokemon and the return statement read.
DictRead(before, after) == after

GlobalsChainForgotten ==
    [pokemon_dict      |-> pokemon_dict,
     pokemonchain_dict |-> ChainReset(pokemonchain_dict),
     chaintext         |-> Td(NoChain, FALSE),
     INIT_STATE        |-> FALSE,
     chain_dict        |-> chain_dict,
     database_file     |-> database_file]

\* The globals as the callback of app.py finds them, after its INIT_STATE
\* block.
Globals ==
    [pokemon_dict      |-> pokemon_dict,
     pokemonchain_dict |-> pokemonchain_dict,
     chaintext         |-> IF INIT_STATE
                             THEN Td(pokemonchain_dict.chaintext, TRUE)
                             ELSE chaintext,
     INIT_STATE        |-> FALSE,
     chain_dict        |-> chain_dict,
     database_file     |-> database_file]

\* The globals as the callback of pokemon_catchrate.py finds them.
GlobalsLegacy ==
    [pokemon_dict      |-> pokemon_dict,
     pokemonchain_dict |-> pokemonchain_dict,
     chaintext         |-> chaintext,
     INIT_STATE        |-> INIT_STATE,
     chain_dict        |-> chain_dict,
     database_file     |-> database_file]

Store(g) ==
    /\ INIT_STATE' = g.INIT_STATE
    /\ pokemon_dict' = g.pokemon_dict
    /\ pokemonchain_dict' = g.pokemonchain_dict
    /\ chaintext' = g.chaintext
    /\ chain_dict' = g.chain_dict
    /\ database_file' = g.database_file
    /\ page' = "shown"
    /\ UNCHANGED <<program, fnvars>>

\* The callback ends with an exception.
Raise(in, g, exception, printed) ==
    /\ Store(g)
    /\ raised' = exception
    /\ stdout' = printed
    /\ outputs' = BlankOutputs
    /\ inputs' = in

\* The chain text the return statement names: the global chaintext in app.py,
\* chain_dict["chaintext"] in pokemon_catchrate.py.
ReturnedChain(g) ==
    IF program = "app" THEN g.chaintext ELSE g.chain_dict.chaintext

\* The return statement; pd is the dictionary it reads.
Return(in, g, pd, df) ==
    /\ Store(g)
    /\ raised' = NoException
    /\ stdout' = df.printed
    /\ outputs' =
           [CR           |-> df.rates,
            ring         |-> [i \in 1..Len(df.rates) |->
                                 catchring_color(df.rates[i])],
            numbercaught |-> pd[in.pokemonname].times_caught,
            chaintext    |-> ReturnedChain(g),
            shinyradio   |-> g.pokemon_dict[in.pokemonname].shiny_caught]
    /\ inputs' = [in EXCEPT !.shinyradio =
                     g.pokemon_dict[in.pokemonname].shiny_caught]

\* From catch_pokemon on: its None is subscripted.
Rates(in, g, pd, df) ==
    IF df.isNone THEN Raise(in, g, TypeError, df.printed)
    ELSE Return(in, g, pd, df)

\* techniquerate_df = catch_pokemon(...), by the catch_pokemon of the program.
techniquerate_df(in, pd) ==
    IF program = "app"
      THEN catch_pokemon(pd, in.pokemonname, in.cp, in.ball, in.berry)
      ELSE catch_pokemon_legacy(pd, in.pokemonname, in.cp, in.ball, in.berry)

\* After the triggers: the shiny_caught lookup, then catch_pokemon.
Respond(in, g, pd) ==
    IF in.pokemonname \notin DOMAIN g.pokemon_dict
      THEN Raise(in, g, KeyError(in.pokemonname), "")
      ELSE Rates(in, g, pd, techniquerate_df(in, pd))

Triggered(in, th) ==
    IF th.raised # NoException THEN Raise(in, th.g, th.raised, "")
    ELSE Respond(in, th.g, DictRead(pokemon_dict, th.g.pokemon_dict))

update_catchrates(trigger, in) ==
    Triggered(in, triggers_handler(trigger, in.pokemonname, in.shinyradio, Globals))

\* The callback of pokemon_catchrate.py.
update_catchrates_legacy(trigger, in) ==
    Triggered(in, triggers_legacy(trigger, in.pokemonname, in.shinyradio,
                                  GlobalsLegacy))

\* Dash calls the callback of the program that runs.
Callback(trigger, in) ==
    IF program = "app" THEN update_catchrates(trigger, in)
    ELSE update_catchrates_legacy(trigger, in)

(***************************************************************************)
(* The events.                                                             *)
(***************************************************************************)
RECURSIVE SumCaught(_, _)
SumCaught(pd, S) ==
    IF S = {} THEN 0
    ELSE LET p == CHOOSE q \in S : TRUE
         IN  pd[p].times_caught + SumCaught(pd, S \ {p})

Captures == SumCaught(pokemon_dict, SpeciesIds) - SumCaught(InitialPokemon, SpeciesIds)

\* The first callback, fired by the page when it has loaded.
PageLoad ==
    /\ page = "loading"
    /\ Callback("", inputs)
    /\ UNCHANGED chain_event

selectSpecies ==
    /\ page = "shown"
    /\ \E v \in PokemonChoices \ {inputs.pokemonname} :
          Callback("pokemonname", [inputs EXCEPT !.pokemonname = v])
    /\ UNCHANGED chain_event

setCombatPower ==
    /\ page = "shown"
    /\ \E v \in CombatPowers \ {inputs.cp} :
          Callback("cp", [inputs EXCEPT !.cp = v])
    /\ UNCHANGED chain_event

selectDevice ==
    /\ page = "shown"
    /\ \E v \in BallChoices \ {inputs.ball} :
          Callback("ball", [inputs EXCEPT !.ball = v])
    /\ UNCHANGED chain_event

selectItem ==
    /\ page = "shown"
    /\ \E v \in BerryChoices \ {inputs.berry} :
          Callback("berry", [inputs EXCEPT !.berry = v])
    /\ UNCHANGED chain_event

setShinySeen ==
    /\ page = "shown"
    /\ \E v \in {"Yes", "No"} \ {inputs.shinyradio} :
          Callback("shinyradio", [inputs EXCEPT !.shinyradio = v])
    /\ UNCHANGED chain_event

capture ==
    /\ page = "shown"
    /\ Captures < MaxCaptures
    /\ Callback("add1_btn", inputs)
    /\ chain_event' = IF inputs.pokemonname \in DOMAIN pokemon_dict
                        THEN "capture" ELSE chain_event

resetChain ==
    /\ page = "shown"
    /\ Callback("resetchain_btn", inputs)
    /\ chain_event' = "reset"

(***************************************************************************)
(* The program after the module has run.  app.py has loaded the database   *)
(* with no chain (`last` is the pokemon the file names as last caught);    *)
(* pokemon_catchrate.py has built its chain_dict.  The pokemon of the      *)
(* dropdown and the cp are drawn at random.                                *)
(***************************************************************************)
Browser(pokemontocatch, combatpower) ==
    /\ page = "loading"
    /\ chain_event = "none"
    /\ inputs = [pokemonname |-> pokemontocatch, cp |-> combatpower,
                 ball |-> "pokeball", berry |-> "none", shinyradio |-> "No"]
    /\ outputs = BlankOutputs
    /\ raised = NoException
    /\ stdout = ""

Loaded(last, pokemontocatch, combatpower) ==
    /\ program = "app"
    /\ pokemon_dict = InitialPokemon
    /\ pokemonchain_dict =
           [pokemonname |-> last, chainvalue |-> 0, chaintext |-> NoChain]
    /\ chaintext = Td(NoChain, FALSE)
    /\ INIT_STATE = TRUE
    /\ chain_dict = NotDefined
    /\ database_file = pokemon_db
    /\ Browser(pokemontocatch, combatpower)

LoadedLegacy(pokemontocatch, combatpower) ==
    /\ program = "pokemon_catchrate"
    /\ pokemon_dict = InitialPokemon
    /\ pokemonchain_dict = NotDefined
    /\ chaintext = NotDefined
    /\ INIT_STATE = NotDefined
    /\ chain_dict = chain_dict_init
    /\ database_file = [pokemon |-> pokemon_dict]
    /\ Browser(pokemontocatch, combatpower)

NoCall == [fn |-> "none"]
NoRet  == [done |-> FALSE]

Init ==
    /\ \E pokemontocatch \in SpeciesIds, combatpower \in CombatPowers :
          \/ \E last \in {<<>>, RegionFormA} :
                Loaded(last, pokemontocatch, combatpower)
          \/ LoadedLegacy(pokemontocatch, combatpower)
    /\ call = NoCall
    /\ ret = NoRet

Next ==
    \/ PageLoad
    \/ selectSpecies
    \/ setCombatPower
    \/ selectDevice
    \/ selectItem
    \/ setShinySeen
    \/ capture
    \/ resetChain

Spec == Init /\ [][Next]_vars

(***************************************************************************)
(* SpecFn: the functions applied alone, to arguments drawn from the sets   *)
(* below.                                                                  *)
(***************************************************************************)
CatchRates  == {3, 45, 190, 255}
TimesCaught == {0, 50, 99, 100, 101, 250}
Powers      == {1, 100, 1000, 10000, 10000000}
Multipliers == {1, 100, 150, 10000}

RateCalls ==
    [fn : {"catchrate_calc", "catchrate_calc_legacy"},
     catch_rate : CatchRates, times_caught : TimesCaught,
     combat_power : Powers, ball : Multipliers \ {1},
     technique : Multipliers \ {10000}, berry : Multipliers \ {10000}]

ColorCalls == [fn : {"catchring_color"}, catch_rate : 0..Scale]

PokemonCalls ==
    [fn : {"catch_pokemon", "catch_pokemon_legacy"}, pokemon : PokemonChoices, combat_power : CombatPowers,
     ball : BallChoices, berry : BerryChoices]

\* Identifiers with no "-", one, two, and one at either end.
Identifiers ==
    {Mew, RegionFormA, RegionFormB,
     <<"a", "-", "b", "-", "c">>, <<"a", "-">>, <<"-", "a">>, <<"-">>, <<>>}

ChainTextCalls ==
    [fn : {"chaintext"}, chainvalue : {1, 2, 9, 10, 11, 100, 101, 250},
     pokemonname : Identifiers]

InitFn ==
    /\ Loaded(<<>>, RegionFormA, 100)
    /\ call \in RateCalls \cup ColorCalls \cup PokemonCalls \cup ChainTextCalls
    /\ ret = NoRet

ApplyRate ==
    /\ ~ret.done
    /\ call.fn = "catchrate_calc"
    /\ ret' = [done |-> TRUE,
               value |-> catchrate_calc(call.catch_rate, call.times_caught,
                                        call.combat_power, call.ball,
                                        call.technique, call.berry)]
    /\ UNCHANGED <<progvars, call>>

ApplyRateLegacy ==
    /\ ~ret.done
    /\ call.fn = "catchrate_calc_legacy"
    /\ ret' = [done |-> TRUE,
               value |-> catchrate_calc_legacy(call.catch_rate, call.times_caught,
                                               call.combat_power, call.ball,
                                               call.technique, call.berry)]
    /\ UNCHANGED <<progvars, call>>

ApplyColor ==
    /\ ~ret.done
    /\ call.fn = "catchring_color"
    /\ ret' = [done |-> TRUE, value |-> catchring_color(call.catch_rate)]
    /\ UNCHANGED <<progvars, call>>

pokemon_dict_counted(pd, pokemon) ==
    IF pokemon \in DOMAIN pd
      THEN [pd EXCEPT ![pokemon].times_caught = @ + 1]
      ELSE pd

\* pokemon_dict after a call of catch_pokemon: the function and its
\* catchrate_calc read the dictionaries and bind locals (times_caught, a, b,
\* catch_rate); they assign to no global and to no entry.
pokemon_dict_after(pd, pokemon) == pd

\* The globals other than pokemon_dict, and the browser.
othervars == <<program, pokemonchain_dict, chaintext, INIT_STATE, chain_dict,
               database_file, page, chain_event, inputs, outputs, raised,
               stdout>>

\* catch_pokemon raises nothing of its own.
ApplyCatchPokemon ==
    /\ ~ret.done
    /\ call.fn = "catch_pokemon"
    /\ ret' = [done |-> TRUE,
               value |-> catch_pokemon(pokemon_dict, call.pokemon,
                                       call.combat_power, call.ball, call.berry),
               raised |-> NoException]
    /\ pokemon_dict' = pokemon_dict_after(pokemon_dict, call.pokemon)
    /\ UNCHANGED <<othervars, call>>

ApplyCatchPokemonLegacy ==
    /\ ~ret.done
    /\ call.fn = "catch_pokemon_legacy"
    /\ ret' = [done |-> TRUE,
               value |-> catch_pokemon_legacy(pokemon_dict, call.pokemon,
                                              call.combat_power, call.ball,
                                              call.berry),
               raised |-> NoException]
    /\ pokemon_dict' = pokemon_dict_after(pokemon_dict, call.pokemon)
    /\ UNCHANGED <<othervars, call>>

\* The same call once more, nothing in between.
ApplyCatchPokemonAgain ==
    /\ ret.done
    /\ call.fn \in {"catch_pokemon", "catch_pokemon_legacy"}
    /\ "again" \notin DOMAIN ret
    /\ ret' = [done |-> TRUE, value |-> ret.value, raised |-> ret.raised,
               again |-> IF call.fn = "catch_pokemon"
                           THEN catch_pokemon(pokemon_dict, call.pokemon,
                                              call.combat_power, call.ball,
                                              call.berry)
                           ELSE catch_pokemon_legacy(pokemon_dict, call.pokemon,
                                                     call.combat_power, call.ball,
                                                     call.berry)]
    /\ pokemon_dict' = pokemon_dict_after(pokemon_dict, call.pokemon)
    /\ UNCHANGED <<othervars, call>>

\* The f-string of the chain text.
ApplyChainText ==
    /\ ~ret.done
    /\ call.fn = "chaintext"
    /\ ret' = [done |-> TRUE,
               value |-> ChainText(call.chainvalue, call.pokemonname)]
    /\ UNCHANGED <<progvars, call>>

NextFn ==
    \/ ApplyRate
    \/ ApplyRateLegacy
    \/ ApplyColor
    \/ ApplyCatchPokemon
    \/ ApplyCatchPokemonLegacy
    \/ ApplyCatchPokemonAgain
    \/ ApplyChainText

SpecFn == InitFn /\ [][NextFn]_vars
(***************************************************************************)
(* The properties.                                                         *)
(***************************************************************************)
\* The "+" click of a pokemon the database has: the step the chain laws are
\* about.
CaptureOfKnown == capture /\ inputs.pokemonname \in DOMAIN pokemon_dict

Returned == raised = NoException /\ page = "shown"

\* The chain of the program that runs: the streak, the last species, the
\* text it stores and the text of the global it shows.
Streak ==
    IF program = "app" THEN pokemonchain_dict.chainvalue ELSE chain_dict.chainvalue

LastSpecies ==
    IF program = "app" THEN pokemonchain_dict.pokemonname ELSE chain_dict.last_catch

StoredText ==
    IF program = "app" THEN pokemonchain_dict.chaintext
    ELSE chain_dict.chaintext.children

ShownText ==
    IF program = "app" THEN chaintext.children ELSE chain_dict.chaintext.children

\* C1: a capture of the species that equals lastSpecies adds exactly 1 to the
\* streak and keeps lastSpecies; a capture of any other species sets the
\* streak to 1 and lastSpecies to the captured species.
C1_ChainLaw ==
    [][CaptureOfKnown =>
        IF inputs.pokemonname = LastSpecies
          THEN /\ Streak' = Streak + 1
               /\ LastSpecies' = LastSpecies
          ELSE /\ Streak' = 1
               /\ LastSpecies' = inputs.pokemonname]_vars

\* formB was captured, then formA twice: the streak is 2 and formA is last.
C1_Witness ==
    /\ Streak = 2
    /\ LastSpecies = RegionFormA
    /\ pokemon_dict[RegionFormB].times_caught = 1

\* C2 as written: Reset sets the streak to 0, lastSpecies to null and the text
\* to "No chain".
C2_ResetClearsLast ==
    [][resetChain =>
        /\ Streak' = 0
        /\ LastSpecies' = <<>>
        /\ StoredText' = NoChain
        /\ ShownText' = NoChain]_vars

\* C2 as amended: Reset sets the streak to 0 and the text to "No chain" and
\* leaves lastSpecies as it was.
C2_ResetKeepsLast ==
    [][resetChain =>
        /\ Streak' = 0
        /\ LastSpecies' = LastSpecies
        /\ StoredText' = NoChain
        /\ ShownText' = NoChain]_vars

\* A chain of formB was reset: no streak, the sentinel, formB still last.
C2_Witness ==
    /\ Streak = 0
    /\ LastSpecies = RegionFormB
    /\ StoredText = NoChain
    /\ ShownText = NoChain

\* C3: in every reachable state the streak is 0 exactly when the chain text,
\* stored and shown, is "No chain".
C3_ZeroIffNoChain ==
    /\ (Streak = 0) <=> (StoredText = NoChain)
    /\ (Streak = 0) <=> (ShownText = NoChain)
    /\ Returned => ((Streak = 0) <=> (outputs.chaintext.children = NoChain))

\* A chain of three was reset and a new one begun.
C3_Witness ==
    /\ pokemon_dict[RegionFormA].times_caught = InitialPokemon[RegionFormA].times_caught + 3
    /\ LastSpecies = Mew
    /\ Streak = 1
    /\ ShownText # NoChain

\* name is what follows the last "-" of id, all of id when it has none.
IsNameOf(name, id) ==
    /\ \A i \in 1..Len(name) : name[i] # "-"
    /\ \E k \in 0..Len(id) :
          /\ name = SubSeq(id, k + 1, Len(id))
          /\ k = 0 \/ id[k] = "-"

ChainOfOne    == <<"C", "h", "a", "i", "n", " ", "o", "f", " ", "1", " ">>
ChainOfTwo    == <<"C", "h", "a", "i", "n", " ", "o", "f", " ", "2", " ">>
ChainOfThree  == <<"C", "h", "a", "i", "n", " ", "o", "f", " ", "3", " ">>
FormAMark     == <<"f", "o", "r", "m", "A", "!">>
FormBMark     == <<"f", "o", "r", "m", "B", "!">>

\* The texts of the scenario, letter by letter.
ScenarioText(id, streak, text) ==
    /\ (id = RegionFormA /\ streak = 1) => text = ChainOfOne \o FormAMark
    /\ (id = RegionFormA /\ streak = 2) => text = ChainOfTwo \o FormAMark
    /\ (id = RegionFormA /\ streak = 3) => text = ChainOfThree \o FormAMark
    /\ (id = RegionFormB /\ streak = 1) => text = ChainOfOne \o FormBMark
    /\ (id = Mew /\ streak = 1) => text = ChainOfOne \o Mew \o <<"!">>

\* C4: after every capture the chain text is "Chain of {streak} {name}!" with
\* the streak after the capture and the name the part of the captured
\* identifier after its last "-"; region-formA three times and region-formB
\* once give the four texts of the scenario.
C4_ChainText ==
    [][CaptureOfKnown =>
        LET id     == inputs.pokemonname
            streak == Streak'
            text   == StoredText'
        IN  /\ \E k \in 0..Len(id) :
                  /\ IsNameOf(SubSeq(id, k + 1, Len(id)), id)
                  /\ text = ChainOf \o Str(streak) \o <<" ">>
                                \o SubSeq(id, k + 1, Len(id)) \o <<"!">>
            /\ ScenarioText(id, streak, text)
            /\ ShownText' = text
            /\ raised' = NoException => outputs'.chaintext.children = text]_vars

\* formA was captured three times, then formB once.
C4_Witness ==
    /\ pokemon_dict[RegionFormA].times_caught = InitialPokemon[RegionFormA].times_caught + 3
    /\ pokemon_dict[RegionFormB].times_caught = InitialPokemon[RegionFormB].times_caught + 1
    /\ LastSpecies = RegionFormB
    /\ Streak = 1
    /\ ShownText = ChainOfOne \o FormBMark
    /\ outputs.chaintext.children = ChainOfOne \o FormBMark

\* (The name the f-string writes is what follows the last "-" of any
\* identifier, also one with two separators or with one at an end.)
ChainTextLastPart ==
    (ret.done /\ call.fn = "chaintext") =>
        \E name \in {SubSeq(call.pokemonname, k + 1, Len(call.pokemonname)) :
                         k \in 0..Len(call.pokemonname)} :
            /\ IsNameOf(name, call.pokemonname)
            /\ ret.value = ChainOf \o Str(call.chainvalue) \o <<" ">> \o name
                               \o <<"!">>

\* The tier of a ring colour.
Tier(color) ==
    CASE color = "red" -> "low"
      [] color = "orange" -> "medium-low"
      [] color = "gold" -> "medium-high"
      [] color = "green" -> "high"
      [] OTHER -> "none"

\* C5: classify is total on the two-decimal rates of [0, 100]: low below 70,
\* medium-low in [70, 75), medium-high in [75, 80), high in [80, 100]; 69.99
\* is low, 70.0 medium-low, 75.0 medium-high, 80.0 high.
C5_Classify ==
    (ret.done /\ call.fn = "catchring_color") =>
        LET p == call.catch_rate
        IN  /\ Tier(ret.value) =
                  (IF p < 7000 THEN "low"
                   ELSE IF p < 7500 THEN "medium-low"
                   ELSE IF p < 8000 THEN "medium-high"
                   ELSE "high")
            /\ p = 6999 => Tier(ret.value) = "low"
            /\ p = 7000 => Tier(ret.value) = "medium-low"
            /\ p = 7500 => Tier(ret.value) = "medium-high"
            /\ p = 8000 => Tier(ret.value) = "high"

\* 70.0 has been classified.
C5_Witness ==
    /\ ret.done
    /\ call.fn = "catchring_color"
    /\ call.catch_rate = 7000
    /\ ret.value = "orange"

\* C6: every rate computed from valid inputs is within [0, 100], by either
\* catchrate_calc.
C6_RateInRange ==
    (ret.done /\ call.fn \in {"catchrate_calc", "catchrate_calc_legacy"}) =>
        (0 <= ret.value /\ ret.value <= Scale)

\* (The catchrate_calc of app.py alone stays within [0, 100].)
AppRateInRange ==
    (ret.done /\ call.fn = "catchrate_calc") =>
        (0 <= ret.value /\ ret.value <= Scale)

\* C7: the stored and the displayed counter grow by 1 with every capture, also
\* from 100 on, and a capture of a pokemon already caught 100 times leaves the
\* four rates as they were.
C7_CapOnlyInFormula ==
    [][CaptureOfKnown =>
        LET p == inputs.pokemonname
            n == pokemon_dict[p].times_caught
        IN  /\ pokemon_dict'[p].times_caught = n + 1
            /\ database_file'.pokemon[p].times_caught = n + 1
            /\ raised' = NoException => outputs'.numbercaught = n + 1
            /\ (n >= 100 /\ Returned /\ raised' = NoException) =>
                   outputs'.CR = outputs.CR]_vars

\* formA stands at 102 after three captures, two of them from 100 on, and the
\* rates are shown.
C7_Witness ==
    /\ pokemon_dict[RegionFormA].times_caught = 102
    /\ inputs.pokemonname = RegionFormA
    /\ Returned
    /\ outputs.numbercaught = 102
    /\ Streak = 3

Unresolved(c) ==
    \/ c.pokemon \notin DOMAIN pokemon_dict
    \/ c.ball \notin DOMAIN ballrate_dict
    \/ c.berry \notin DOMAIN berry_dict

\* C8: catch_pokemon with an identifier that is in no table ends with a
\* NotFoundError and hands the caller no value, no sentinel either.
C8_NotFoundError ==
    (ret.done /\ call.fn \in {"catch_pokemon", "catch_pokemon_legacy"}
              /\ Unresolved(call)) =>
        /\ ret.raised.type = "NotFoundError"
        /\ ~ret.value.isNone

\* C9: an event that ends with an exception for an identifier that is in no
\* table leaves every times_caught and the chain as they were.
C9_FailedEventChangesNothing ==
    [][raised' # NoException =>
        /\ \A p \in SpeciesIds :
              pokemon_dict'[p].times_caught = pokemon_dict[p].times_caught
        /\ Streak' = Streak
        /\ LastSpecies' = LastSpecies
        /\ StoredText' = StoredText
        /\ ShownText' = ShownText]_vars

\* catchrate_calc as the program that runs has it.
RateOfProgram(catch_rate, times_caught, combat_power, ball, technique, berry) ==
    IF program = "app"
      THEN Rate(catch_rate, times_caught, combat_power, ball, technique, berry)
      ELSE RateLegacy(catch_rate, times_caught, combat_power, ball, technique,
                      berry)

\* C10: the count and the four rates a capture returns are those of the
\* counter after its increment.
C10_ReadsAfterIncrement ==
    [][(capture /\ raised' = NoException) =>
        LET p == inputs.pokemonname
            n == pokemon_dict[p].times_caught
        IN  /\ outputs'.numbercaught = n + 1
            /\ outputs'.CR =
                  [i \in 1..Len(TechniqueNames) |->
                      RateOfProgram(pokemon_dict[p].catch_rate, n + 1, inputs.cp,
                                    ballrate_dict[inputs.ball],
                                    technique_dict[TechniqueNames[i]],
                                    berry_dict[inputs.berry])]]_vars

\* formB was caught for the first time and the callback returned.
C10_Witness ==
    /\ Returned
    /\ inputs.pokemonname = RegionFormB
    /\ pokemon_dict[RegionFormB].times_caught = 1
    /\ outputs.numbercaught = 1
    /\ LastSpecies = RegionFormB
    /\ Streak = 1

\* A call of catch_pokemon, of either program, first or repeated.
CatchPokemonCall ==
    ApplyCatchPokemon \/ ApplyCatchPokemonLegacy \/ ApplyCatchPokemonAgain

C12_CounterFrame ==
    [][/\ DOMAIN pokemon_dict \subseteq DOMAIN pokemon_dict'
       /\ \A p \in DOMAIN pokemon_dict :
              /\ pokemon_dict'[p].times_caught >= pokemon_dict[p].times_caught
              /\ pokemon_dict'[p].times_caught # pokemon_dict[p].times_caught =>
                     /\ capture
                     /\ p = inputs.pokemonname
                     /\ pokemon_dict'[p].times_caught =
                            pokemon_dict[p].times_caught + 1]_vars

\* formB was captured twice and mew once, mew was marked shiny, and formA
\* stands where it started.
C12_Witness ==
    /\ DOMAIN pokemon_dict = SpeciesIds
    /\ pokemon_dict[RegionFormB].times_caught = InitialPokemon[RegionFormB].times_caught + 2
    /\ pokemon_dict[Mew].times_caught = InitialPokemon[Mew].times_caught + 1
    /\ pokemon_dict[RegionFormA].times_caught = InitialPokemon[RegionFormA].times_caught
    /\ pokemon_dict[Mew].shiny_caught = "Yes"

\* C13: the first capture after a Reset, whatever was selected or set in
\* between and whichever pokemon it is, the last one of the chain before the
\* Reset included, gives the streak 1 and the text "Chain of 1 {name}!".
C13_NoResumeAfterReset ==
    [][(CaptureOfKnown /\ chain_event = "reset") =>
        /\ Streak' = 1
        /\ LastSpecies' = inputs.pokemonname
        /\ StoredText' = ChainOfOne \o LastPart(inputs.pokemonname) \o <<"!">>
        /\ ShownText' = StoredText'
        /\ raised' = NoException => outputs'.chaintext.children = StoredText']_vars

\* formA was captured twice, the chain was reset, and formA was captured
\* again: a chain of 1, not of 3.
C13_Witness ==
    /\ chain_event = "capture"
    /\ pokemon_dict[RegionFormA].times_caught = InitialPokemon[RegionFormA].times_caught + 3
    /\ pokemon_dict[RegionFormB].times_caught = InitialPokemon[RegionFormB].times_caught
    /\ pokemon_dict[Mew].times_caught = InitialPokemon[Mew].times_caught
    /\ LastSpecies = RegionFormA
    /\ Streak = 1
    /\ ShownText = ChainOfOne \o FormAMark

\* The chain is not what it was.
ChainChanged ==
    \/ Streak' # Streak
    \/ LastSpecies' # LastSpecies
    \/ StoredText' # StoredText
    \/ ShownText' # ShownText

\* An event that is neither a capture nor a Reset.
OtherEvent ==
    selectSpecies \/ setCombatPower \/ selectDevice \/ selectItem \/ setShinySeen

\* C14: the streak, the last species and the chain text change in a capture
\* or a Reset only; selecting a pokemon, a ball or a berry, setting the cp or
\* the shiny mark leaves them as they were and returns the text of the chain
\* as it stands.
\* (The second conjunct reads: a step that changes the chain, or returns
\* another text than the one that stood, is none of the other events.)
C14_ChainFrame ==
    [][/\ ChainChanged => (capture \/ resetChain)
       /\ (\/ ChainChanged
           \/ raised' = NoException /\ outputs'.chaintext.children # ShownText)
              => ~OtherEvent]_vars

\* With a chain of two formA, mew was selected and marked shiny and the
\* ultraball chosen: the chain of two formA stands and is shown.
C14_Witness ==
    /\ chain_event = "capture"
    /\ Streak = 2
    /\ LastSpecies = RegionFormA
    /\ inputs.pokemonname = Mew
    /\ inputs.ball = "ultraball"
    /\ pokemon_dict[Mew].shiny_caught = "Yes"
    /\ pokemon_dict[Mew].times_caught = InitialPokemon[Mew].times_caught
    /\ Returned
    /\ ShownText = ChainOfTwo \o FormAMark
    /\ outputs.chaintext.children = ChainOfTwo \o FormAMark
=============================================================================
